---- MODULE Spec2Model ----
(***************************************************************************)
(* Movie recommendation app (src/app.py).                                  *)
(*                                                                         *)
(* Two artifacts, movies.pkl (the catalog) and similarity_compressed.pkl   *)
(* (the similarity matrix), are loaded when the script starts; the script  *)
(* stops when either is unusable and otherwise serves requests through     *)
(* get_recommendations, keeping a per-session recommendation_history.      *)
(*                                                                         *)
(* Conventions of the model:                                               *)
(*   - a catalog is the sequence of its titles; catalog and matrix indices *)
(*     are 1-based here (Python index i is i+1 in the model), so the       *)
(*     "first N-1 others" of the code are still N-1 entries;               *)
(*   - a similarity score is an integer s standing for s * 0.0004, so the  *)
(*     displayed score round(score * 100, 1) is the nearest integer to     *)
(*     4*s/10, in tenths of a percent (no value is at a rounding tie);     *)
(*   - the timestamp of a history entry is not modelled.                   *)
(***************************************************************************)
EXTENDS Integers, Sequences, FiniteSets

VARIABLES
    movies_pkl,              \* the catalog artifact on disk: Missing or File(titles)
    similarity_pkl,          \* the matrix artifact on disk: Missing or File(rows)
    pc,                      \* position of the script: "start", "loaded", "serving", "stopped"
    movies,                  \* global movies: a sequence of titles (empty before loading)
    similarity,              \* global similarity: None, or Matrix(rows)
    recommendation_history,  \* st.session_state.recommendation_history
    call                     \* the last invocation of get_recommendations: NotRun, or its
                             \* arguments, locals and return values

vars == <<movies_pkl, similarity_pkl, pc, movies, similarity, recommendation_history, call>>

\* ------------------------------------------------------------------ bounds
MaxN == 3          \* largest catalog (and matrix dimension)
MaxScore == 2      \* similarity scores are 0..MaxScore
MaxK == 4          \* get_recommendations is called with k in -MaxK..MaxK
MaxHistory == 2    \* requests are accepted while the history is shorter than this

\* ------------------------------------------------------------------ values
NoError == "None"
NotRunMsg == "not run"
NotFoundMsg == "Movie not found in database!"
ErrorMsg == "Error generating recommendations"

\* The titles a catalog is made of; a catalog need not hold both, and may hold
\* one twice.
Titles == {"A", "B"}
Scores == 0..MaxScore

SliderMin == 3
SliderMax == 10

\* An artifact on disk, and the absence of one (open() raises FileNotFoundError).
File(data) == [exists |-> TRUE, data |-> data]
Missing == [exists |-> FALSE, data |-> <<>>]

\* The value of the global similarity: a loaded matrix, or None.
Matrix(rows) == [is_none |-> FALSE, rows |-> rows]
None == [is_none |-> TRUE, rows |-> <<>>]

Min(a, b) == IF a <= b THEN a ELSE b
Max(a, b) == IF a >= b THEN a ELSE b

\* All sequences over S of length lo..hi.
SeqsOf(S, lo, hi) == UNION {[1..n -> S] : n \in lo..hi}

\* The m x m matrix of a well-separated catalog: every item is most similar to
\* itself and not similar to any other.
Canonical(m) == [i \in 1..m |-> [j \in 1..m |-> IF i = j THEN MaxScore ELSE 0]]

\* The m x m matrices that are canonical except for one row, which is arbitrary.
\* get_recommendations reads a single row, so every row content is covered.
OneFreeRow(m) ==
    {[Canonical(m) EXCEPT ![r] = row] : r \in 1..m, row \in [1..m -> Scores]}

\* ------------------------------------------------------------------ get_recommendations

\* round(i[1] * 100, 1), in tenths of a percent.
round1(s) == (4 * s + 5) \div 10

\* movies['title'].values, as a set (for the membership test).
title_values(m) == {m[i] : i \in DOMAIN m}

\* movies[movies['title'] == movie_title].index: the matching indices, in order.
matching_index(m, movie_title) ==
    LET F[i \in 0..Len(m)] ==
            IF i = 0 THEN <<>>
            ELSE IF m[i] = movie_title THEN Append(F[i - 1], i) ELSE F[i - 1]
    IN F[Len(m)]

first_match_last(m, movie_title) ==
    LET idx == matching_index(m, movie_title) IN idx[Len(idx)]

\* .index[0]
first_match(m, movie_title) == matching_index(m, movie_title)[1]

\* list(enumerate(similarity[movie_index]))
enumerate(row) == [j \in 1..Len(row) |-> [index |-> j, score |-> row[j]]]

insert_desc_before_ties(s, x) ==
    LET n == Cardinality({p \in DOMAIN s : s[p].score > x.score})
    IN SubSeq(s, 1, n) \o <<x>> \o SubSeq(s, n + 1, Len(s))

\* One step of the stable descending sort: x goes after every element whose
\* score is greater than or equal to its own.
insert_desc(s, x) ==
    LET n == Cardinality({p \in DOMAIN s : s[p].score >= x.score})
    IN SubSeq(s, 1, n) \o <<x>> \o SubSeq(s, n + 1, Len(s))

\* sorted(distances, key=lambda x: x[1], reverse=True): stable, descending.
sorted_desc(d) ==
    LET F[i \in 0..Len(d)] == IF i = 0 THEN <<>> ELSE insert_desc(F[i - 1], d[i])
    IN F[Len(d)]

\* A Python slice bound i on a sequence of length n.
slice_bound(i, n) == IF i < 0 THEN Max(i + n, 0) ELSE Min(i, n)

\* s[start:stop] (start and stop are Python's 0-based bounds).
py_slice(s, start, stop) ==
    LET a == slice_bound(start, Len(s))
        b == slice_bound(stop, Len(s))
    IN IF a >= b THEN <<>> ELSE SubSeq(s, a + 1, b)

top_from_zero(distances, num_recommendations) ==
    py_slice(distances, 0, num_recommendations)

top_short(distances, num_recommendations) ==
    py_slice(distances, 1, num_recommendations)

\* distances[1:num_recommendations+1]
top(distances, num_recommendations) ==
    py_slice(distances, 1, num_recommendations + 1)

\* The movie_data of one entry i of distances; index is i[0], kept beside the
\* title so that properties can name the catalog entry a result stands for.
movie_data(m, i) ==
    [index |-> i.index, title |-> m[i.index], similarity_score |-> round1(i.score)]

result(movie_title, k, movie_index, distances, recommended_movies, error) ==
    [movie_title |-> movie_title, num_recommendations |-> k,
     movie_index |-> movie_index, distances |-> distances,
     recommended_movies |-> recommended_movies, error |-> error]

\* No invocation yet.
NotRun == result("", 0, 0, <<>>, <<>>, NotRunMsg)

lookup_unchecked(m, sim, movie_title, k) ==
    IF matching_index(m, movie_title) = <<>>
    THEN result(movie_title, k, 0, <<>>, <<>>, ErrorMsg)
    ELSE LET movie_index == first_match(m, movie_title)
             distances == sorted_desc(enumerate(sim.rows[movie_index]))
             picked == top(distances, k)
         IN result(movie_title, k, movie_index, distances,
                   [n \in 1..Len(picked) |-> movie_data(m, picked[n])], NoError)

\* get_recommendations(movie_title, num_recommendations) over the globals
\* movies (m) and similarity (sim). movie_index is 0 while it is not assigned.
get_recommendations(m, sim, movie_title, k) ==
    IF movie_title \notin title_values(m)
    THEN result(movie_title, k, 0, <<>>, <<>>, NotFoundMsg)
    ELSE LET movie_index == first_match(m, movie_title)
         IN IF movie_index > Len(sim.rows)
            THEN \* similarity[movie_index] raises IndexError
                 result(movie_title, k, movie_index, <<>>, <<>>, ErrorMsg)
            ELSE LET distances == sorted_desc(enumerate(sim.rows[movie_index]))
                     picked == top(distances, k)
                 IN IF \E n \in 1..Len(picked) : picked[n].index > Len(m)
                    THEN \* movies.iloc[i[0]] raises IndexError
                         result(movie_title, k, movie_index, distances, <<>>, ErrorMsg)
                    ELSE result(movie_title, k, movie_index, distances,
                                [n \in 1..Len(picked) |-> movie_data(m, picked[n])],
                                NoError)

\* ------------------------------------------------------------------ the script

\* The artifacts are whatever is on disk when the script starts.
Init ==
    /\ movies_pkl \in {Missing} \cup {File(c) : c \in SeqsOf(Titles, 0, MaxN)}
    /\ similarity_pkl \in {Missing} \cup {File(Canonical(m)) : m \in 1..MaxN}
    /\ pc = "start"
    /\ movies = <<>>
    /\ similarity = None
    /\ recommendation_history = <<>>
    /\ call = NotRun

\* load_movies_data(): the catalog, or an empty DataFrame when the file is missing.
load_movies_data == IF ~movies_pkl.exists THEN <<>> ELSE movies_pkl.data

\* load_similarity_matrix(): the matrix, or None when the file is missing.
load_similarity_matrix ==
    IF ~similarity_pkl.exists THEN None ELSE Matrix(similarity_pkl.data)

LoadData ==
    /\ pc = "start"
    /\ movies' = load_movies_data
    /\ similarity' = load_similarity_matrix
    /\ pc' = "loaded"
    /\ UNCHANGED <<movies_pkl, similarity_pkl, recommendation_history, call>>

must_stop_both == movies = <<>> /\ similarity = None

\* movies.empty or similarity is None
must_stop == movies = <<>> \/ similarity = None

StopGuard ==
    /\ pc = "loaded"
    /\ pc' = IF must_stop THEN "stopped" ELSE "serving"
    /\ UNCHANGED <<movies_pkl, similarity_pkl, movies, similarity,
                   recommendation_history, call>>

history_always(history, c) ==
    Append(history, [movie |-> c.movie_title, count |-> Len(c.recommended_movies)])

\* if error: ... elif recommendations: history.append(...)
history_after(history, c) ==
    IF c.error # NoError THEN history
    ELSE IF c.recommended_movies # <<>>
         THEN Append(history, [movie |-> c.movie_title,
                               count |-> Len(c.recommended_movies)])
         ELSE history

\* The handler of both buttons, for the movie and the slider value of this run.
Handle(selected_movie, num_recs) ==
    /\ pc = "serving"
    /\ Len(recommendation_history) < MaxHistory
    /\ call' = get_recommendations(movies, similarity, selected_movie, num_recs)
    /\ recommendation_history' = history_after(recommendation_history, call')
    /\ UNCHANGED <<movies_pkl, similarity_pkl, pc, movies, similarity>>

\* "Get Recommendations": the movie chosen in a selectbox over catalog titles.
GetRecommendations ==
    \E selected_movie \in title_values(movies), num_recs \in SliderMin..SliderMax :
        Handle(selected_movie, num_recs)

\* "Surprise Me!": random.choice over the catalog titles.
SurpriseMe ==
    \E selected_movie \in title_values(movies), num_recs \in SliderMin..SliderMax :
        Handle(selected_movie, num_recs)

cleared(history) == <<>>

\* "Clear History": the button exists only while the history is not empty.
ClearHistory ==
    /\ pc = "serving"
    /\ recommendation_history # <<>>
    /\ recommendation_history' = cleared(recommendation_history)
    /\ UNCHANGED <<movies_pkl, similarity_pkl, pc, movies, similarity, call>>

Next == LoadData \/ StopGuard \/ GetRecommendations \/ SurpriseMe \/ ClearHistory

Spec == Init /\ [][Next]_vars

\* ------------------------------------------------------------------ the lookup alone

\* get_recommendations as a function of its inputs: a loaded catalog of N >= 1
\* titles (duplicates included) and an N x N matrix with any row content (a
\* self-score need not be the row maximum), called once with any title,
\* in the catalog or not, and any k, negative and beyond N included.
LookupInit ==
    /\ movies \in SeqsOf(Titles, 1, MaxN)
    /\ similarity \in {Matrix(rows) : rows \in OneFreeRow(Len(movies))}
    /\ movies_pkl = File(movies)
    /\ similarity_pkl = File(similarity.rows)
    /\ pc = "serving"
    /\ recommendation_history = <<>>
    /\ call = NotRun

Query ==
    \E movie_title \in Titles, k \in -MaxK..MaxK :
        /\ pc = "serving"
        /\ call = NotRun
        /\ call' = get_recommendations(movies, similarity, movie_title, k)
        /\ UNCHANGED <<movies_pkl, similarity_pkl, pc, movies, similarity,
                       recommendation_history>>

LookupNext == Query

LookupSpec == LookupInit /\ [][LookupNext]_vars

\* ------------------------------------------------------------------ properties

Ran == call # NotRun
ValidTitle == call.movie_title \in title_values(movies)
N == Len(movies)
Recs == call.recommended_movies

\* The matrix row of the query, as the matrix holds it.
QueryRow == similarity.rows[call.movie_index]

\* Entry a comes before entry b in a descending order of row that breaks ties by
\* ascending index.
Before(row, a, b) == row[a] > row[b] \/ (row[a] = row[b] /\ a < b)

\* The position (0 for the first) of entry j in that order.
RankOf(row, j) == Cardinality({a \in DOMAIN row : Before(row, a, j)})

\* C1: for a title of the catalog and k >= 1, the call succeeds with exactly k
\* entries when k <= N-1 and exactly N-1 entries when k > N-1.
C1_ExactCount ==
    (Ran /\ ValidTitle /\ call.num_recommendations >= 1) =>
        /\ call.error = NoError
        /\ Len(Recs) = Min(call.num_recommendations, N - 1)

\* A call with 1 < k <= N-1 that returned k entries.
C1_Witness ==
    /\ Ran /\ ValidTitle
    /\ N = MaxN
    /\ call.num_recommendations = MaxN - 1
    /\ Len(Recs) = MaxN - 1

\* C2 (as claimed): for a title of the catalog and k >= 1, when the query's
\* self-score is the maximum of its row (ties allowed), the query's own catalog
\* index is not among the results.
C2_NeverSelf ==
    (/\ Ran /\ ValidTitle /\ call.num_recommendations >= 1
     /\ \A j \in DOMAIN QueryRow : QueryRow[j] <= QueryRow[call.movie_index]) =>
        \A n \in DOMAIN Recs : Recs[n].index # call.movie_index

\* C3: in a successful result the displayed scores are non-increasing, and two
\* entries whose matrix scores are equal come in ascending catalog-index order.
C3_Ordered ==
    (Ran /\ call.error = NoError) =>
        \A a, b \in DOMAIN Recs :
            a < b =>
                /\ Recs[a].similarity_score >= Recs[b].similarity_score
                /\ QueryRow[Recs[a].index] >= QueryRow[Recs[b].index]
                /\ (QueryRow[Recs[a].index] = QueryRow[Recs[b].index]
                        => Recs[a].index < Recs[b].index)

\* A result holding two entries of equal matrix score, and one holding two of
\* different displayed score, would both do; this is the tie.
C3_Witness ==
    /\ Ran /\ call.error = NoError
    /\ \E a, b \in DOMAIN Recs :
          /\ a < b
          /\ QueryRow[Recs[a].index] = QueryRow[Recs[b].index]
          /\ QueryRow[Recs[a].index] < QueryRow[call.movie_index]

\* C4: a title that matches no catalog title gets the not-found error, with no
\* results, for every k; the script keeps serving.
C4_NotFound ==
    (Ran /\ ~ValidTitle) =>
        /\ call.error = NotFoundMsg
        /\ Recs = <<>>
        /\ pc = "serving"

\* An unknown title was asked for, with a k that a valid title would satisfy.
C4_Witness ==
    /\ Ran /\ ~ValidTitle
    /\ call.num_recommendations = 1
    /\ N = MaxN
    /\ call.error = NotFoundMsg

\* C5 (as claimed): no call of get_recommendations is served while the matrix
\* has a row count other than the catalog size.
C5_ShapeChecked == Ran => Len(similarity.rows) = N

\* C6: when an artifact is missing the script stops and never calls
\* get_recommendations; every call is made with a non-empty catalog and a
\* loaded matrix.
C6_NoQueryWithoutData ==
    /\ Ran => (movies # <<>> /\ ~similarity.is_none)
    /\ pc = "serving" => (movies # <<>> /\ ~similarity.is_none)
    /\ (~movies_pkl.exists \/ ~similarity_pkl.exists) =>
           (~Ran /\ pc \in {"start", "loaded", "stopped"})

\* The script stopped on a missing matrix although the catalog was loaded.
C6_Witness ==
    /\ pc = "stopped"
    /\ movies # <<>>
    /\ ~similarity_pkl.exists
    /\ ~Ran

\* C7 (as claimed): for a title of the catalog and k <= 0 or k >= N the call
\* returns no error, at most k entries (none for k <= 0) and at most N-1.
C7_Clamped ==
    (/\ Ran /\ ValidTitle
     /\ (call.num_recommendations <= 0 \/ call.num_recommendations >= N)) =>
        /\ call.error = NoError
        /\ Len(Recs) <= Max(call.num_recommendations, 0)
        /\ Len(Recs) <= N - 1

\* C8: the query row is the row of the lowest catalog index carrying the title.
C8_FirstOccurrence ==
    (Ran /\ ValidTitle) =>
        /\ movies[call.movie_index] = call.movie_title
        /\ \A j \in DOMAIN movies :
              movies[j] = call.movie_title => call.movie_index <= j
        /\ {call.distances[p] : p \in DOMAIN call.distances}
              = {[index |-> j, score |-> QueryRow[j]] : j \in DOMAIN QueryRow}

\* The title is carried by two entries whose rows differ, and was asked for.
C8_Witness ==
    /\ Ran /\ ValidTitle
    /\ \E i, j \in DOMAIN movies :
          /\ i < j
          /\ movies[i] = call.movie_title
          /\ movies[j] = call.movie_title
          /\ similarity.rows[i] # similarity.rows[j]
          /\ call.movie_index = i
    /\ Recs # <<>>

\* C9: for a title of the catalog and k >= 1 the result is positions
\* 1..min(k, N-1) of the descending, ties-by-index order of the whole query row:
\* entry n is the catalog entry of rank n, with its title and displayed score,
\* whether or not rank 0 is the query itself.
C9_PositionsOneToK ==
    (Ran /\ ValidTitle /\ call.num_recommendations >= 1) =>
        /\ call.error = NoError
        /\ Len(Recs) = Min(call.num_recommendations, N - 1)
        /\ \A n \in DOMAIN Recs :
              /\ Recs[n].index \in DOMAIN QueryRow
              /\ RankOf(QueryRow, Recs[n].index) = n
              /\ Recs[n].title = movies[Recs[n].index]
              /\ Recs[n].similarity_score = round1(QueryRow[Recs[n].index])

\* The query's self-score was not first in the order, another entry was
\* dropped and the query itself was returned.
C9_Witness ==
    /\ Ran /\ ValidTitle /\ call.num_recommendations >= 1
    /\ RankOf(QueryRow, call.movie_index) > 0
    /\ \E n \in DOMAIN Recs : Recs[n].index = call.movie_index

\* The history entry of a call.
EntryOf(c) == [movie |-> c.movie_title, count |-> Len(c.recommended_movies)]
Succeeded(c) == c.error = NoError /\ c.recommended_movies # <<>>

\* C10: a request that returns a non-empty result without error appends exactly
\* its entry (movie, number of results) to the history; a request that returns
\* an error or nothing leaves the history alone; the only other change of the
\* history empties it; the artifacts never change, nor do the loaded catalog
\* and matrix once the script serves.
C10_HistoryFrame ==
    [][/\ movies_pkl' = movies_pkl
       /\ similarity_pkl' = similarity_pkl
       /\ pc = "serving" => (movies' = movies /\ similarity' = similarity)
       /\ call' # call =>
             recommendation_history' =
                 IF Succeeded(call')
                 THEN Append(recommendation_history, EntryOf(call'))
                 ELSE recommendation_history
       /\ call' = call =>
             \/ recommendation_history' = recommendation_history
             \/ recommendation_history' = <<>>
             \/ /\ Succeeded(call)
                /\ recommendation_history' = Append(recommendation_history, EntryOf(call))
      ]_vars

\* A request failed after one succeeded, and the history still holds only the
\* entry of the one that succeeded.
C10_Witness ==
    /\ call.error = ErrorMsg
    /\ Len(recommendation_history) = 1
    /\ recommendation_history[1].count >= 1
    /\ recommendation_history[1].movie # call.movie_title

====
